---- MODULE Spec2Model ----
(***************************************************************************)
(* jsonp: a character-granular tokenizer (src/src/tokenize.rs) feeding a   *)
(* recursive-descent JSON parser (src/src/parse.rs), driven by main        *)
(* (src/src/main.rs).  Characters are one-character strings, a text is a   *)
(* sequence of characters.  The recursion of the parser is an explicit     *)
(* stack of frames; every frame holds the position inside its function.    *)
(***************************************************************************)
EXTENDS Integers, Sequences, FiniteSets, TLC

VARIABLES
    text,      \* the file contents handed to tokenize
    doc,       \* the document the text was rendered from (tag "None": a raw text)
    variant,   \* how the text was derived from doc: "raw", "spaced", "truncated"
    run,       \* 1: the text as given; 2: the same text without out-of-string whitespace
    first,     \* the outcome of run 1, kept for run 2
    pc,        \* position in main: "init", "start", "tokenized", "parsing", "done"
    pos,       \* Tokenizer.pos
    toks,      \* main's `tokens`: what tokenize returned
    tokens,    \* Parser.tokens
    idx,       \* Parser.idx
    stack,     \* the parser's call stack, innermost frame last
    ret,       \* the value the callee just returned to the innermost frame
    result,    \* what Parser::parse returned (a sequence of zero or one outcome)
    steps,     \* how many steps the current parse call has taken
    fault      \* "none", or the panic that ended the run

vars ==
    <<text, doc, variant, run, first, pc, pos, toks, tokens, idx, stack, ret, result, steps,
      fault>>

(***************************************************************************)
(* Bounds of the model.                                                    *)
(***************************************************************************)
\* longest raw text
MaxLen == 3
\* most members of an object, most elements of an array, in a rendered document
MaxMembers == 2
\* deepest nesting of containers in a rendered document
MaxDepth == 2

(***************************************************************************)
(* Characters.                                                             *)
(***************************************************************************)
QUOTE == "\""
NL == "\n"
TAB == "\t"
Digits == {"0", "1", "2", "3", "4", "5", "6", "7", "8", "9"}
Letters ==
    {"a", "b", "c", "d", "e", "f", "g", "h", "i", "j", "k", "l", "m",
     "n", "o", "p", "q", "r", "s", "t", "u", "v", "w", "x", "y", "z",
     "A", "B", "C", "D", "E", "F", "G", "H", "I", "J", "K", "L", "M",
     "N", "O", "P", "Q", "R", "S", "T", "U", "V", "W", "X", "Y", "Z"}

(***************************************************************************)
(* tokenize.rs                                                             *)
(***************************************************************************)
\* enum Token: the variant and, for Digit and Char, the character carried
Token(kind, ch) == [kind |-> kind, ch |-> ch]
Plain(kind) == Token(kind, "")

Position(line, col) == [line |-> line, col |-> col]

\* Tokenizer::new
TokenizerNew == Position(1, 0)

\* Tokenizer::new_line
new_line(p) == Position(p.line + 1, 1)

\* Tokenizer::next_char
next_char(p) == Position(p.line, p.col + 1)

\* the match on a character outside a string; the quote and the newline arms'
\* side effects are in TokenizeChar
Classify(c) ==
    CASE c = QUOTE -> Plain("Quote")
      [] c = ":" -> Plain("Colon")
      [] c = "-" -> Plain("Minus")
      [] c = "{" -> Plain("LeftCurly")
      [] c = "}" -> Plain("RightCurly")
      [] c = "[" -> Plain("LeftBracket")
      [] c = "]" -> Plain("RightBracket")
      [] c = "," -> Plain("Comma")
      [] c = "." -> Plain("Dot")
      [] c \in {" ", TAB} -> Plain("Whitespace")
      [] c = NL -> Plain("NewLine")
      [] c \in Digits -> Token("Digit", c)
      [] c \in Letters -> Token("Char", c)
      [] OTHER -> Plain("NotSupported")

\* a mutant of TokenizeChar: a newline inside a string is kept as a character
\* of the string
TokenizeCharKeepNewline(c, p0, in_string) ==
    LET p == next_char(p0) IN
    IF in_string /\ c # QUOTE
    THEN [tok |-> Token("Char", c),
          pos |-> IF c = NL THEN new_line(p) ELSE p,
          in_string |-> in_string]
    ELSE [tok |-> Classify(c),
          pos |-> IF c = NL THEN new_line(p) ELSE p,
          in_string |-> IF c = QUOTE THEN ~in_string ELSE in_string]

\* a mutant of TokenizeChar: the in-string flag is ignored
TokenizeCharNoString(c, p0, in_string) ==
    LET p == next_char(p0) IN
    [tok |-> Classify(c),
     pos |-> IF c = NL THEN new_line(p) ELSE p,
     in_string |-> IF c = QUOTE THEN ~in_string ELSE in_string]

\* the closure of tokenize, applied to one character: the token, the
\* tokenizer's position after it (which is the position recorded on the token)
\* and the in-string flag after it
TokenizeChar(c, p0, in_string) ==
    LET p == next_char(p0) IN
    IF in_string
    THEN IF c = NL
         THEN [tok |-> Plain("NewLine"), pos |-> new_line(p), in_string |-> in_string]
         ELSE IF c = QUOTE
              THEN [tok |-> Plain("Quote"), pos |-> p, in_string |-> ~in_string]
              ELSE [tok |-> Token("Char", c), pos |-> p, in_string |-> in_string]
    ELSE [tok |-> Classify(c),
          pos |-> IF c = NL THEN new_line(p) ELSE p,
          in_string |-> IF c = QUOTE THEN ~in_string ELSE in_string]

RECURSIVE TokenizeFrom(_, _, _, _, _)
TokenizeFrom(cs, i, p, in_string, acc) ==
    IF i > Len(cs)
    THEN [tokens |-> acc, pos |-> p]
    ELSE LET r == TokenizeChar(cs[i], p, in_string) IN
         TokenizeFrom(cs, i + 1, r.pos, r.in_string,
                      Append(acc, [tok |-> r.tok, pos |-> r.pos]))

\* Tokenizer::tokenize: the (Token, Position) pairs and the tokenizer's position after
Tokenize(cs, p) == TokenizeFrom(cs, 1, p, FALSE, <<>>)

(***************************************************************************)
(* parse.rs: values, errors, outcomes                                      *)
(***************************************************************************)
\* enum JsonValue.  One record shape for every variant: the variant, its text
\* (the key of a KeyedObject, the characters of a Str, the numeral of an Int or
\* a Float, "true"/"false" of a Bool) and its children.
JsonValue(tag, str, kids) == [tag |-> tag, str |-> str, kids |-> kids]
NoValue == JsonValue("None", <<>>, <<>>)
Empty == JsonValue("Empty", <<>>, <<>>)
Object(objs) == JsonValue("Object", <<>>, objs)
KeyedObject(key, v) == JsonValue("KeyedObject", key, <<v>>)
Arr(arr) == JsonValue("Arr", <<>>, arr)
Str(s) == JsonValue("Str", s, <<>>)
Bool(b) == JsonValue("Bool", IF b THEN <<"true">> ELSE <<"false">>, <<>>)
IntValue(numeral) == JsonValue("Int", numeral, <<>>)
FloatValue(numeral) == JsonValue("Float", numeral, <<>>)

\* struct SyntaxError(String): the message, and beside it the position the
\* message was built from (empty for the end-of-file message)
SyntaxError(message, at) == [text |-> message, at |-> at]
NoError == SyntaxError("", <<>>)

\* impl Display for Position
DisplayPosition(p) == "line " \o ToString(p.line) \o " column " \o ToString(p.col)

\* What a parser method leaves behind: Ok(value) or Err(error) with the read
\* index after it, or a panic.
Ok(i, v) == [st |-> "ok", idx |-> i, val |-> v, err |-> NoError]
Err(i, e) == [st |-> "err", idx |-> i, val |-> NoValue, err |-> e]
Panic(i, why) == [st |-> "panic", idx |-> i, val |-> NoValue, err |-> SyntaxError(why, <<>>)]

(***************************************************************************)
(* parse.rs: the cursor                                                    *)
(***************************************************************************)
\* Parser::remove_whitespace
RECURSIVE remove_whitespace(_)
remove_whitespace(ts) ==
    IF ts = <<>> THEN <<>>
    ELSE IF Head(ts).tok # Plain("Whitespace") /\ Head(ts).tok # Plain("NewLine")
         THEN <<Head(ts)>> \o remove_whitespace(Tail(ts))
         ELSE remove_whitespace(Tail(ts))

\* Parser::end_of_tokens
end_of_tokens(ts, i) == Len(ts) <= i

\* Parser::last_token.  tokens.len() - 1 is a usize subtraction: on an empty
\* vector it panics in a build with overflow checks and wraps to usize::MAX
\* (never equal to idx) in one without.
last_token(ts, i) ==
    IF Len(ts) = 0 THEN {"overflow", "false"}
    ELSE IF Len(ts) - 1 = i THEN {"true"} ELSE {"false"}

\* Parser::err
err(ts, i, msg) ==
    IF end_of_tokens(ts, i)
    THEN SyntaxError("Syntax error: unexpected end of file", <<>>)
    ELSE LET p == ts[i + 1].pos IN
         SyntaxError("Syntax error: " \o msg \o " at " \o DisplayPosition(p), <<p>>)

\* a mutant of next_token: the index advances without the end check
next_token_unchecked(ts, i) == Ok(i + 1, NoValue)

\* Parser::next_token
next_token(ts, i) ==
    IF end_of_tokens(ts, i) THEN Err(i, err(ts, i, "unterminated")) ELSE Ok(i + 1, NoValue)

\* Parser::current_token: Err, or Ok with the token in `tok`
current_token(ts, i) ==
    IF end_of_tokens(ts, i)
    THEN [st |-> "err", err |-> err(ts, i, "unexpected end of file"), tok |-> Plain("NotSupported")]
    ELSE [st |-> "ok", err |-> NoError, tok |-> ts[i + 1].tok]

\* impl Display for Token: the text, or nothing where fmt reaches unreachable!()
Display(t) ==
    CASE t.kind = "Quote" -> <<QUOTE>>
      [] t.kind = "Digit" -> <<"'" \o t.ch \o "'">>
      [] t.kind = "Dot" -> <<".">>
      [] t.kind = "Comma" -> <<",">>
      [] t.kind = "Colon" -> <<":">>
      [] t.kind = "Minus" -> <<"-">>
      [] t.kind = "RightCurly" -> <<"}">>
      [] t.kind = "LeftCurly" -> <<"{">>
      [] t.kind = "RightBracket" -> <<"]">>
      [] t.kind = "LeftBracket" -> <<"[">>
      [] t.kind = "Char" -> <<"'" \o t.ch \o "'">>
      [] t.kind = "NewLine" -> <<"a newline">>
      [] t.kind = "Whitespace" -> <<"a whitespace">>
      [] OTHER -> <<>>

\* expected.iter().map(Token::to_string).collect().join(", "): nothing if a
\* to_string panics
RECURSIVE JoinExpected(_)
JoinExpected(expected) ==
    IF expected = <<>> THEN <<"">>
    ELSE LET h == Display(Head(expected))
             t == JoinExpected(Tail(expected)) IN
         IF h = <<>> \/ t = <<>> THEN <<>>
         ELSE IF Tail(expected) = <<>> THEN h ELSE <<h[1] \o ", " \o t[1]>>

\* the relaxed equality of assert_current
Matches(ex, cur) ==
    \/ ex.kind = "Char" /\ cur.kind = "Char"
    \/ ex.kind = "Digit" /\ cur.kind = "Digit"
    \/ ex = cur

\* Parser::assert_current
assert_current(ts, i, expected) ==
    LET c == current_token(ts, i) IN
    IF c.st = "err" THEN Err(i, c.err)
    ELSE IF \E k \in 1..Len(expected) : Matches(expected[k], c.tok) THEN Ok(i, NoValue)
    ELSE LET expected_list == JoinExpected(expected)
             got == Display(c.tok) IN
         IF expected_list = <<>> \/ got = <<>>
         THEN Panic(i, "internal error: entered unreachable code")
         ELSE Err(i, err(ts, i, "expected " \o expected_list[1] \o " but got " \o got[1]))

\* a mutant of chars_to_string: the run of letters ends at a space
RECURSIVE chars_to_string_words(_, _)
chars_to_string_words(ts, i) ==
    IF i < Len(ts) /\ ts[i + 1].tok.kind = "Char" /\ ts[i + 1].tok.ch # " "
    THEN LET r == chars_to_string_words(ts, i + 1) IN
         [idx |-> r.idx, s |-> <<ts[i + 1].tok.ch>> \o r.s]
    ELSE [idx |-> i, s |-> <<>>]

\* Parser::chars_to_string: the read index after the run of Char tokens and
\* the characters of the run
RECURSIVE chars_to_string(_, _)
chars_to_string(ts, i) ==
    IF i < Len(ts) /\ ts[i + 1].tok.kind = "Char"
    THEN LET r == chars_to_string(ts, i + 1) IN
         [idx |-> r.idx, s |-> <<ts[i + 1].tok.ch>> \o r.s]
    ELSE [idx |-> i, s |-> <<>>]

\* Parser::digits_to_string
RECURSIVE digits_to_string(_, _)
digits_to_string(ts, i) ==
    IF i < Len(ts) /\ ts[i + 1].tok.kind \in {"Digit", "Minus", "Dot"}
    THEN LET r == digits_to_string(ts, i + 1)
             t == ts[i + 1].tok
             c == IF t.kind = "Digit" THEN t.ch ELSE IF t.kind = "Minus" THEN "-" ELSE "."
         IN  [idx |-> r.idx, s |-> <<c>> \o r.s]
    ELSE [idx |-> i, s |-> <<>>]

(***************************************************************************)
(* str::parse::<i64>, str::parse::<f64> on a run of digits, '-' and '.'    *)
(***************************************************************************)
RECURSIVE StripLeadingZeros(_)
StripLeadingZeros(s) ==
    IF s # <<>> /\ Head(s) = "0" THEN StripLeadingZeros(Tail(s)) ELSE s

RECURSIVE StripTrailingZeros(_)
StripTrailingZeros(s) ==
    IF s # <<>> /\ s[Len(s)] = "0" THEN StripTrailingZeros(SubSeq(s, 1, Len(s) - 1)) ELSE s

IsDigitRun(s) == \A k \in 1..Len(s) : s[k] \in Digits

DigitValue(c) == CHOOSE n \in 0..9 : ToString(n) = c

\* the digits of i64::MAX; i64::MIN has one more in the last place
I64MaxDigits == <<9, 2, 2, 3, 3, 7, 2, 0, 3, 6, 8, 5, 4, 7, 7, 5, 8, 0, 7>>

\* whether the numeral d (no leading zeros) is beyond i64::MAX (beyond -i64::MIN if neg)
I64Overflows(d, neg) ==
    LET lim == [I64MaxDigits EXCEPT ![Len(I64MaxDigits)] = IF neg THEN @ + 1 ELSE @] IN
    \/ Len(d) > Len(lim)
    \/ /\ Len(d) = Len(lim)
       /\ \E k \in 1..Len(d) :
            /\ DigitValue(d[k]) > lim[k]
            /\ \A j \in 1..(k - 1) : DigitValue(d[j]) = lim[j]

\* num.parse::<i64>(): nothing on Err, else the value as a numeral without
\* leading zeros (and without a sign for zero)
ParseI64(s) ==
    LET neg == s # <<>> /\ Head(s) = "-"
        body == IF neg THEN Tail(s) ELSE s
        d == StripLeadingZeros(body)
    IN  IF body = <<>> \/ ~IsDigitRun(body) \/ I64Overflows(d, neg) THEN <<>>
        ELSE IF d = <<>> THEN <<(<<"0">>)>>
        ELSE <<((IF neg THEN <<"-">> ELSE <<>>) \o d)>>

\* num.parse::<f64>() of a run that holds a '.': nothing on Err, else the value
\* as a decimal numeral without leading or trailing zeros.  (The rounding of
\* numerals longer than an f64 holds is beyond the lengths modelled.)
ParseF64(s) ==
    LET neg == s # <<>> /\ Head(s) = "-"
        body == IF neg THEN Tail(s) ELSE s
        dots == {k \in 1..Len(body) : body[k] = "."}
    IN  IF Cardinality(dots) # 1 \/ Len(body) < 2 THEN <<>>
        ELSE LET k == CHOOSE j \in dots : TRUE
                 ip == SubSeq(body, 1, k - 1)
                 fp == SubSeq(body, k + 1, Len(body))
                 i0 == StripLeadingZeros(ip)
                 f0 == StripTrailingZeros(fp)
             IN  IF ~IsDigitRun(ip) \/ ~IsDigitRun(fp) THEN <<>>
                 ELSE <<((IF neg THEN <<"-">> ELSE <<>>)
                         \o (IF i0 = <<>> THEN <<"0">> ELSE i0)
                         \o <<".">>
                         \o (IF f0 = <<>> THEN <<"0">> ELSE f0))>>

(***************************************************************************)
(* parse.rs: the productions that call no other production                 *)
(***************************************************************************)
\* Parser::parse_number
parse_number(ts, i) ==
    LET num == digits_to_string(ts, i) IN
    IF \E k \in 1..Len(num.s) : num.s[k] = "."
    THEN LET f == ParseF64(num.s) IN
         IF f # <<>> THEN Ok(num.idx, FloatValue(f[1]))
         ELSE Err(num.idx, err(ts, num.idx, "failed to parse float"))
    ELSE LET n == ParseI64(num.s) IN
         IF n # <<>> THEN Ok(num.idx, IntValue(n[1]))
         ELSE Err(num.idx, err(ts, num.idx, "failed to parse integer"))

\* assert_current(&[Quote])?; next_token()?; chars_to_string();
\* assert_current(&[Quote])?; next_token()?  -- shared by parse_string_literal
\* and parse_key (lines 139-145 and 169-175)
QuotedRun(ts, i) ==
    LET a1 == assert_current(ts, i, <<Plain("Quote")>>) IN
    IF a1.st # "ok" THEN a1
    ELSE LET n1 == next_token(ts, i) IN
    IF n1.st # "ok" THEN n1
    ELSE LET run_ == chars_to_string(ts, n1.idx)
             a2 == assert_current(ts, run_.idx, <<Plain("Quote")>>) IN
    IF a2.st # "ok" THEN a2
    ELSE LET n2 == next_token(ts, run_.idx) IN
    IF n2.st # "ok" THEN n2
    ELSE Ok(n2.idx, Str(run_.s))

\* Parser::parse_string_literal
parse_string_literal(ts, i) == QuotedRun(ts, i)

\* Parser::parse_bool
parse_bool(ts, i) ==
    LET run_ == chars_to_string(ts, i) IN
    IF run_.s = <<"t", "r", "u", "e">> THEN Ok(run_.idx, Bool(TRUE))
    ELSE IF run_.s = <<"f", "a", "l", "s", "e">> THEN Ok(run_.idx, Bool(FALSE))
    ELSE Err(run_.idx, err(ts, run_.idx, "failed to parse boolean"))

\* Parser::parse_key: Ok carries the key as a Str
parse_key(ts, i) ==
    LET a0 == assert_current(ts, i, <<Plain("Comma")>>) IN
    IF a0.st = "panic" THEN a0
    ELSE LET n0 == IF a0.st = "ok" THEN next_token(ts, i) ELSE Ok(i, NoValue) IN
    IF n0.st # "ok" THEN n0
    ELSE QuotedRun(ts, n0.idx)

\* the arms of the value dispatch that parse a value without recursion:
\* Quote, Char('t') | Char('f'), Digit(_) | Minus
IsScalarStart(t) ==
    \/ t.kind \in {"Quote", "Digit", "Minus"}
    \/ t = Token("Char", "t")
    \/ t = Token("Char", "f")

Scalar(ts, i, t) ==
    IF t.kind = "Quote" THEN parse_string_literal(ts, i)
    ELSE IF t.kind = "Char" THEN parse_bool(ts, i)
    ELSE parse_number(ts, i)

(***************************************************************************)
(* The call stack of the recursive productions.                            *)
(***************************************************************************)
\* a frame: the function, the position in it, its `objs`/`arr` and its `key`
Frame(fn, at, acc, key) == [fn |-> fn, at |-> at, acc |-> acc, key |-> key]

Top == stack[Len(stack)]
Pop == SubSeq(stack, 1, Len(stack) - 1)
InFrame(fn, at) == pc = "parsing" /\ stack # <<>> /\ Top.fn = fn /\ Top.at = at

\* a Result as the caller sees it
Outcome(o) == [st |-> o.st, val |-> o.val, err |-> o.err]

Set(i, stk, r, res, p, f) ==
    /\ idx' = i
    /\ stack' = stk
    /\ ret' = r
    /\ result' = res
    /\ pc' = p
    /\ fault' = f
    /\ steps' = steps + 1

\* parse returns o to main, or the panic unwinds to main
Finish(o) ==
    IF o.st = "panic"
    THEN Set(o.idx, <<>>, <<>>, <<>>, "done", o.err.text)
    ELSE Set(o.idx, <<>>, <<>>, <<Outcome(o)>>, "done", fault)

\* the innermost function returns o
Return(o) ==
    IF o.st = "panic" \/ Len(stack) <= 1
    THEN Finish(o)
    ELSE Set(o.idx, Pop, <<Outcome(o)>>, result, pc, fault)

\* the innermost function goes on at `at` with accumulator acc
Continue(i, at, acc) ==
    Set(i, Append(Pop, Frame(Top.fn, at, acc, Top.key)), <<>>, result, pc, fault)

\* the innermost function calls fn (entered at `entry`) and will go on at "after"
Call(i, key, fn, entry) ==
    Set(i, Append(Append(Pop, Frame(Top.fn, "after", Top.acc, key)),
                  Frame(fn, entry, <<>>, <<>>)),
        <<>>, result, pc, fault)

Input == <<text, doc, variant, run, first>>

(***************************************************************************)
(* main.rs and the actions of the parser                                   *)
(***************************************************************************)
\* main: tokenizer.tokenize(&source)
tokenize ==
    /\ pc = "start"
    /\ LET r == Tokenize(text, pos) IN
       /\ toks' = r.tokens
       /\ pos' = r.pos
    /\ pc' = "tokenized"
    /\ UNCHANGED <<Input, tokens, idx, stack, ret, result, steps, fault>>

\* main: Parser::new(tokens), which moves the tokens into the parser, and
\* parser.parse() up to the call of the root production
parse ==
    /\ pc = "tokenized"
    /\ toks' = <<>>
    /\ LET ts == remove_whitespace(toks)
           c == current_token(ts, 0)
       IN  /\ tokens' = ts
           /\ IF c.st = "err" THEN Finish(Err(0, c.err))
              ELSE IF c.tok.kind = "LeftBracket"
                   THEN Set(0, <<Frame("parse_array", "loop", <<>>, <<>>)>>, <<>>, result, "parsing", fault)
              ELSE IF c.tok.kind = "LeftCurly"
                   THEN Set(0, <<Frame("parse_object", "enter", <<>>, <<>>)>>, <<>>, result, "parsing", fault)
              ELSE Finish(Err(0, err(ts, 0, "invalid JSON document")))
    /\ UNCHANGED <<Input, pos>>

\* parse_object, lines 42-50
parse_object_enter ==
    /\ InFrame("parse_object", "enter")
    /\ LET a == assert_current(tokens, idx, <<Plain("LeftCurly")>>) IN
       IF a.st # "ok" THEN Return(a)
       ELSE LET n == next_token(tokens, idx) IN
       IF n.st # "ok" THEN Return(n)
       ELSE LET c == assert_current(tokens, n.idx, <<Plain("RightCurly")>>) IN
       IF c.st = "panic" THEN Return(c)
       ELSE IF c.st = "ok"
            THEN LET n2 == next_token(tokens, n.idx) IN
                 IF n2.st # "ok" THEN Return(n2) ELSE Return(Ok(n2.idx, Empty))
       ELSE Continue(n.idx, "loop", <<>>)
    /\ UNCHANGED <<Input, pos, toks, tokens>>

\* parse_object, lines 71-75
ObjectResult(i, objs) == Ok(i, IF objs = <<>> THEN Empty ELSE Object(objs))

\* a mutant of parse_object_loop: a comma where a key is expected is skipped
\* instead of ending the members
parse_object_loop_skip_comma ==
    /\ InFrame("parse_object", "loop")
    /\ LET c == assert_current(tokens, idx, <<Plain("RightCurly"), Plain("RightBracket")>>) IN
       IF c.st = "panic" THEN Return(c)
       ELSE IF c.st = "ok" THEN Return(ObjectResult(idx, Top.acc))
       ELSE LET a == assert_current(tokens, idx, <<Plain("Quote"), Plain("Comma")>>) IN
       IF a.st # "ok" THEN Return(a)
       ELSE IF current_token(tokens, idx).tok.kind = "Quote"
            THEN Call(idx, Top.key, "parse_keyed_object", "enter")
       ELSE Continue(idx, "loop", Top.acc)
    /\ UNCHANGED <<Input, pos, toks, tokens>>

\* parse_object, lines 51-62: the loop condition and the body up to the call,
\* and lines 71-75 when the loop ends
parse_object_loop ==
    /\ InFrame("parse_object", "loop")
    /\ LET c == assert_current(tokens, idx, <<Plain("RightCurly"), Plain("RightBracket")>>) IN
       IF c.st = "panic" THEN Return(c)
       ELSE IF c.st = "ok" THEN Return(ObjectResult(idx, Top.acc))
       ELSE LET a == assert_current(tokens, idx, <<Plain("Quote"), Plain("Comma")>>) IN
       IF a.st # "ok" THEN Return(a)
       ELSE LET next == current_token(tokens, idx).tok IN
       IF next.kind = "Quote" THEN Call(idx, Top.key, "parse_keyed_object", "enter")
       ELSE IF next.kind = "Comma" THEN Return(ObjectResult(idx, Top.acc))
       ELSE Set(idx, Append(Pop, Frame(Top.fn, "after", Top.acc, Top.key)),
                <<Outcome(Err(idx, err(tokens, idx, "unterminated object")))>>,
                result, pc, fault)
    /\ UNCHANGED <<Input, pos, toks, tokens>>

\* a mutant of parse_object_member: the token after a member is never skipped
parse_object_member_no_skip ==
    /\ InFrame("parse_object", "after")
    /\ ret # <<>>
    /\ IF ret[1].st = "err" THEN Return(Err(idx, ret[1].err))
       ELSE Continue(idx, "loop", Append(Top.acc, ret[1].val))
    /\ UNCHANGED <<Input, pos, toks, tokens>>

\* parse_object, lines 64-68: after the member
parse_object_member ==
    /\ InFrame("parse_object", "after")
    /\ ret # <<>>
    /\ \E last \in last_token(tokens, idx) :
         IF last = "overflow" THEN Finish(Panic(idx, "attempt to subtract with overflow"))
         ELSE LET n == IF last = "false" THEN next_token(tokens, idx) ELSE Ok(idx, NoValue) IN
         IF n.st # "ok" THEN Return(n)
         ELSE IF ret[1].st = "err" THEN Return(Err(n.idx, ret[1].err))
         ELSE Continue(n.idx, "loop", Append(Top.acc, ret[1].val))
    /\ UNCHANGED <<Input, pos, toks, tokens>>

\* parse_keyed_object, lines 81-92, and line 94 when the value is a scalar
parse_keyed_object ==
    /\ InFrame("parse_keyed_object", "enter")
    /\ LET k == parse_key(tokens, idx) IN
       IF k.st # "ok" THEN Return(k)
       ELSE LET a == assert_current(tokens, k.idx, <<Plain("Colon")>>) IN
       IF a.st # "ok" THEN Return(a)
       ELSE LET n == next_token(tokens, k.idx) IN
       IF n.st # "ok" THEN Return(n)
       ELSE LET c == current_token(tokens, n.idx) IN
       IF c.st = "err" THEN Return(Err(n.idx, c.err))
       ELSE IF c.tok.kind = "LeftCurly" THEN Call(n.idx, k.val.str, "parse_object", "enter")
       ELSE IF IsScalarStart(c.tok)
            THEN LET v == Scalar(tokens, n.idx, c.tok) IN
                 IF v.st # "ok" THEN Return(v)
                 ELSE Return(Ok(v.idx, KeyedObject(k.val.str, v.val)))
       ELSE IF c.tok.kind = "LeftBracket" THEN Call(n.idx, k.val.str, "parse_array", "loop")
       ELSE Return(Err(n.idx, err(tokens, n.idx, "unexpected token while parsing object")))
    /\ UNCHANGED <<Input, pos, toks, tokens>>

\* parse_keyed_object, line 94, after a nested object or array
parse_keyed_object_value ==
    /\ InFrame("parse_keyed_object", "after")
    /\ ret # <<>>
    /\ IF ret[1].st = "err" THEN Return(Err(idx, ret[1].err))
       ELSE Return(Ok(idx, KeyedObject(Top.key, ret[1].val)))
    /\ UNCHANGED <<Input, pos, toks, tokens>>

\* parse_array, lines 116-117
ArrayResult(i, arr) ==
    LET n == next_token(tokens, i) IN
    IF n.st # "ok" THEN n ELSE Ok(n.idx, Arr(arr))

\* parse_array, lines 100-113 up to a call, and lines 116-117 when the loop ends
parse_array_loop ==
    /\ InFrame("parse_array", "loop")
    /\ LET c == current_token(tokens, idx) IN
       IF c.st = "err" THEN Return(Err(idx, c.err))
       ELSE IF c.tok.kind = "RightBracket" THEN Return(ArrayResult(idx, Top.acc))
       ELSE LET n == next_token(tokens, idx) IN
       IF n.st # "ok" THEN Return(n)
       ELSE LET d == current_token(tokens, n.idx) IN
       IF d.st = "err" THEN Return(Err(n.idx, d.err))
       ELSE IF d.tok.kind = "LeftCurly" THEN Call(n.idx, Top.key, "parse_object", "enter")
       ELSE IF IsScalarStart(d.tok)
            THEN LET v == Scalar(tokens, n.idx, d.tok) IN
                 IF v.st # "ok" THEN Return(v)
                 ELSE Continue(v.idx, "loop", Append(Top.acc, v.val))
       ELSE IF d.tok.kind = "LeftBracket" THEN Call(n.idx, Top.key, "parse_array", "loop")
       ELSE IF d.tok.kind = "RightBracket" THEN Return(ArrayResult(n.idx, Top.acc))
       ELSE Return(Err(n.idx, err(tokens, n.idx, "unexpected token while parsing array")))
    /\ UNCHANGED <<Input, pos, toks, tokens>>

\* parse_array, line 113, after a nested object or array
parse_array_element ==
    /\ InFrame("parse_array", "after")
    /\ ret # <<>>
    /\ IF ret[1].st = "err" THEN Return(Err(idx, ret[1].err))
       ELSE Continue(idx, "loop", Append(Top.acc, ret[1].val))
    /\ UNCHANGED <<Input, pos, toks, tokens>>

(***************************************************************************)
(* The input texts: every raw text of at most MaxLen characters, and the   *)
(* renderings of documents of bounded size.                                *)
(***************************************************************************)
Alphabet == {"{", "}", "[", "]", QUOTE, ",", "1", "t", "@", NL}

RawTexts == UNION {[1..n -> Alphabet] : n \in 0..MaxLen}

\* the members documents are built from; an array takes the values alone.
\* A scalar holds its source characters.
Members ==
    << [key |-> <<"a">>, val |-> IntValue(<<"1">>)],
       [key |-> <<"a">>, val |-> Str(<<"x", " ", "y">>)],
       [key |-> <<"b">>, val |-> Bool(TRUE)],
       [key |-> <<"k", NL, "z">>, val |-> FloatValue(<<"-", "2", ".", "5">>)],
       [key |-> <<"c">>, val |-> Str(<<"p", NL, "q">>)],
       [key |-> <<"d">>, val |-> Bool(FALSE)],
       [key |-> <<"e">>, val |-> Object(<<KeyedObject(<<"a">>, IntValue(<<"0">>))>>)],
       [key |-> <<"f">>, val |-> Arr(<<IntValue(<<"1", "2">>)>>)] >>

MemberAt(k) == Members[((k - 1) % Len(Members)) + 1]

\* a container of n members, the k-th being MemberAt(o + k), but for the one
\* at place p (if p is in 1..n), whose value is child
Container(kind, o, n, p, child) ==
    LET value(k) == IF k = p THEN child ELSE MemberAt(o + k).val IN
    IF kind = "Object"
    THEN Object([k \in 1..n |-> KeyedObject(MemberAt(o + k).key, value(k))])
    ELSE Arr([k \in 1..n |-> value(k)])

\* The documents of nesting depth at most `depth` (not counting the containers
\* among Members): the containers of members alone, starting at every other
\* member, and the containers of one or of MaxMembers members whose first or
\* last value is a document one level shallower.
RECURSIVE Containers(_)
Containers(depth) ==
    IF depth = 0 THEN {}
    ELSE LET inner == Containers(depth - 1) IN
         inner
         \cup {Container(kind, o, n, 0, NoValue) :
                 kind \in {"Object", "Arr"},
                 o \in {x \in 0..(Len(Members) - 1) : x % 2 = 0},
                 n \in 0..MaxMembers}
         \cup {Container(q[1], 0, q[2], q[3], q[4]) :
                 q \in {x \in {"Object", "Arr"} \X {1, MaxMembers} \X {1, MaxMembers} \X inner :
                          x[3] <= x[2]}}

Documents == Containers(MaxDepth)

RECURSIVE Flatten(_)
Flatten(parts) == IF parts = <<>> THEN <<>> ELSE Head(parts) \o Flatten(Tail(parts))

\* the text of a document; spaced: with whitespace around the structural characters
RECURSIVE Render(_, _)
Render(v, spaced) ==
    LET open(c) == IF spaced THEN <<c, NL, " ">> ELSE <<c>>
        close(c) == IF spaced THEN <<NL, c>> ELSE <<c>>
        comma == IF spaced THEN <<" ", ",", TAB>> ELSE <<",">>
        colon == IF spaced THEN <<" ", ":", " ">> ELSE <<":">>
        list == Flatten([k \in 1..Len(v.kids) |->
                           (IF k > 1 THEN comma ELSE <<>>) \o Render(v.kids[k], spaced)])
    IN  CASE v.tag = "Object" -> open("{") \o list \o close("}")
          [] v.tag = "Arr" -> open("[") \o list \o close("]")
          [] v.tag = "KeyedObject" ->
                <<QUOTE>> \o v.str \o <<QUOTE>> \o colon \o Render(v.kids[1], spaced)
          [] v.tag = "Str" -> <<QUOTE>> \o v.str \o <<QUOTE>>
          [] v.tag = "Bool" ->
                IF v.str = <<"true">> THEN <<"t", "r", "u", "e">> ELSE <<"f", "a", "l", "s", "e">>
          [] OTHER -> v.str

\* the text without its last character
Truncate(t) == SubSeq(t, 1, Len(t) - 1)

Inputs ==
    {[text |-> t, doc |-> NoValue, variant |-> "raw"] : t \in RawTexts}
    \cup {[text |-> Render(d, TRUE), doc |-> d, variant |-> "spaced"] : d \in Documents}
    \cup {[text |-> Truncate(Render(d, FALSE)), doc |-> d, variant |-> "truncated"] : d \in Documents}

\* the text without the spaces, tabs and newlines that stand outside quoted strings
RECURSIVE StripOutside(_, _)
StripOutside(t, quoted) ==
    IF t = <<>> THEN <<>>
    ELSE IF Head(t) = QUOTE THEN <<QUOTE>> \o StripOutside(Tail(t), ~quoted)
    ELSE IF ~quoted /\ Head(t) \in {" ", TAB, NL} THEN StripOutside(Tail(t), quoted)
    ELSE <<Head(t)>> \o StripOutside(Tail(t), quoted)

NoOutcome == [result |-> <<>>, fault |-> "none"]

\* main before it reads the file; Tokenizer::default()
Init ==
    /\ text = <<>>
    /\ doc = NoValue
    /\ variant = "raw"
    /\ run = 1
    /\ first = NoOutcome
    /\ pc = "init"
    /\ pos = TokenizerNew
    /\ toks = <<>>
    /\ tokens = <<>>
    /\ idx = 0
    /\ stack = <<>>
    /\ ret = <<>>
    /\ result = <<>>
    /\ steps = 0
    /\ fault = "none"

\* main: std::fs::read_to_string
read_to_string ==
    /\ pc = "init"
    /\ \E in \in Inputs :
         /\ text' = in.text
         /\ doc' = in.doc
         /\ variant' = in.variant
    /\ pc' = "start"
    /\ UNCHANGED <<run, first, pos, toks, tokens, idx, stack, ret, result, steps, fault>>

\* main runs again, with a fresh Tokenizer and Parser, on the same text less
\* its out-of-string whitespace
rerun ==
    /\ pc = "done"
    /\ run = 1
    /\ StripOutside(text, FALSE) # text
    /\ text' = StripOutside(text, FALSE)
    /\ run' = 2
    /\ first' = [result |-> result, fault |-> fault]
    /\ pc' = "start"
    /\ pos' = TokenizerNew
    /\ toks' = <<>>
    /\ tokens' = <<>>
    /\ idx' = 0
    /\ stack' = <<>>
    /\ ret' = <<>>
    /\ result' = <<>>
    /\ steps' = 0
    /\ fault' = "none"
    /\ UNCHANGED <<doc, variant>>

Next ==
    \/ read_to_string
    \/ tokenize
    \/ parse
    \/ parse_object_enter
    \/ parse_object_loop
    \/ parse_object_member
    \/ parse_keyed_object
    \/ parse_keyed_object_value
    \/ parse_array_loop
    \/ parse_array_element
    \/ rerun

Spec == Init /\ [][Next]_vars

(***************************************************************************)
(* What the properties are stated with.                                    *)
(***************************************************************************)
Done == pc = "done"
Returned == Done /\ result # <<>>
ReturnedOk == Returned /\ result[1].st = "ok"
ReturnedErr == Returned /\ result[1].st = "err"
EofMessage == "Syntax error: unexpected end of file"

Max(S) == CHOOSE m \in S : \A x \in S : x <= m

\* whether the i-th character of t stands inside a quoted string: the parity
\* of the quotes before it
InsideString(t, i) == Cardinality({k \in 1..(i - 1) : t[k] = QUOTE}) % 2 = 1

\* the strings of a value tree, keys included, in source order
RECURSIVE StringsOf(_)
StringsOf(v) ==
    (IF v.tag \in {"KeyedObject", "Str"} THEN <<v.str>> ELSE <<>>)
    \o Flatten([k \in 1..Len(v.kids) |-> StringsOf(v.kids[k])])

\* the characters between the 1st and 2nd, the 3rd and 4th, ... quote of t
RECURSIVE LiteralsFrom(_, _, _, _)
LiteralsFrom(t, i, quoted, body) ==
    IF i > Len(t) THEN <<>>
    ELSE IF t[i] = QUOTE
         THEN IF quoted THEN <<body>> \o LiteralsFrom(t, i + 1, FALSE, <<>>)
              ELSE LiteralsFrom(t, i + 1, TRUE, <<>>)
    ELSE LiteralsFrom(t, i + 1, quoted, IF quoted THEN Append(body, t[i]) ELSE body)

Literals(t) == LiteralsFrom(t, 1, FALSE, <<>>)

RemoveNewlines(s) == SelectSeq(s, LAMBDA c : c # NL)

RECURSIVE UpToNewline(_)
UpToNewline(s) ==
    IF s = <<>> \/ Head(s) = NL THEN <<>> ELSE <<Head(s)>> \o UpToNewline(Tail(s))

HasNewline(s) == \E k \in 1..Len(s) : s[k] = NL

\* a document none of whose strings holds a newline, as JSON requires
RECURSIVE WellFormed(_)
WellFormed(v) ==
    /\ ~HasNewline(v.str)
    /\ \A k \in 1..Len(v.kids) : WellFormed(v.kids[k])

\* the containers of a tree with the keys of their members: the scalars are
\* reduced to their variant.  An object literal without members is Empty.
RECURSIVE Shape(_)
Shape(v) ==
    IF v.tag = "Object" /\ v.kids = <<>> THEN Empty
    ELSE JsonValue(v.tag,
                   IF v.tag = "KeyedObject" THEN v.str ELSE <<>>,
                   [k \in 1..Len(v.kids) |-> Shape(v.kids[k])])

\* whether some object of the tree has two members with one key
RECURSIVE HasDuplicateKeys(_)
HasDuplicateKeys(v) ==
    \/ /\ v.tag = "Object"
       /\ \E j, k \in 1..Len(v.kids) : j < k /\ v.kids[j].str = v.kids[k].str
    \/ \E k \in 1..Len(v.kids) : HasDuplicateKeys(v.kids[k])

\* whether the tree holds an object with members below the root
RECURSIVE HasObject(_)
HasObject(v) == v.tag = "Object" \/ \E k \in 1..Len(v.kids) : HasObject(v.kids[k])

NestedObject(v) == \E k \in 1..Len(v.kids) : HasObject(v.kids[k])

(***************************************************************************)
(* The grammar of a document over the filtered tokens: the index after the *)
(* production that starts at index i (0-based), or -1 if none does.        *)
(***************************************************************************)
KindAt(ts, i) == IF i < Len(ts) THEN ts[i + 1].tok.kind ELSE "End"

StringEnd(ts, i) ==
    IF KindAt(ts, i) # "Quote" THEN -1
    ELSE LET e == chars_to_string(ts, i + 1).idx IN
         IF KindAt(ts, e) = "Quote" THEN e + 1 ELSE -1

RECURSIVE ValueEnd(_, _)
RECURSIVE MembersEnd(_, _)
RECURSIVE ElementsEnd(_, _)

\* member (',' member)* '}'
MembersEnd(ts, i) ==
    LET k == StringEnd(ts, i) IN
    IF k < 0 \/ KindAt(ts, k) # "Colon" THEN -1
    ELSE LET v == ValueEnd(ts, k + 1) IN
         IF v < 0 THEN -1
         ELSE IF KindAt(ts, v) = "RightCurly" THEN v + 1
         ELSE IF KindAt(ts, v) = "Comma" THEN MembersEnd(ts, v + 1)
         ELSE -1

\* value (',' value)* ']'
ElementsEnd(ts, i) ==
    LET v == ValueEnd(ts, i) IN
    IF v < 0 THEN -1
    ELSE IF KindAt(ts, v) = "RightBracket" THEN v + 1
    ELSE IF KindAt(ts, v) = "Comma" THEN ElementsEnd(ts, v + 1)
    ELSE -1

ValueEnd(ts, i) ==
    LET kind == KindAt(ts, i) IN
    CASE kind = "LeftCurly" ->
            IF KindAt(ts, i + 1) = "RightCurly" THEN i + 2 ELSE MembersEnd(ts, i + 1)
      [] kind = "LeftBracket" ->
            IF KindAt(ts, i + 1) = "RightBracket" THEN i + 2 ELSE ElementsEnd(ts, i + 1)
      [] kind = "Quote" -> StringEnd(ts, i)
      [] kind \in {"Digit", "Minus"} ->
            LET n == digits_to_string(ts, i) IN
            IF ParseI64(n.s) # <<>> \/ ParseF64(n.s) # <<>> THEN n.idx ELSE -1
      [] kind = "Char" ->
            LET w == chars_to_string(ts, i) IN
            IF w.s \in {<<"t", "r", "u", "e">>, <<"f", "a", "l", "s", "e">>} THEN w.idx ELSE -1
      [] OTHER -> -1

Grammatical(ts) ==
    /\ KindAt(ts, 0) \in {"LeftCurly", "LeftBracket"}
    /\ ValueEnd(ts, 0) = Len(ts)

(***************************************************************************)
(* The claims.                                                             *)
(***************************************************************************)
\* C1: parse returns a value only when the filtered token stream, taken as a
\* whole, is a grammatical document; every other token stream gets a syntax
\* error.
C1_ValueOnlyForGrammaticalDocument ==
    ReturnedOk => Grammatical(tokens)

\* C2: a well-formed document whose final closing brace or bracket is deleted
\* makes parse return the end-of-file syntax error, never a value.
C2_TruncatedDocumentIsEndOfFile ==
    (Done /\ variant = "truncated" /\ WellFormed(doc))
        => (ReturnedErr /\ result[1].err.text = EofMessage)

\* C3: on a text with a NotSupported token parse never panics: it ends by
\* returning (a SyntaxError where the cursor reaches the token).
C3_UnsupportedNeverPanics ==
    (Done /\ \E k \in 1..Len(tokens) : tokens[k].tok.kind = "NotSupported")
        => (fault = "none" /\ Returned)

\* C4: every object literal of a well-formed document, at the root, as a
\* member value or as an array element, is parsed to an Object with one
\* KeyedObject per member, keys in source order, duplicate keys kept.
C4_MembersKept ==
    (Done /\ variant = "spaced" /\ WellFormed(doc))
        => (ReturnedOk /\ Shape(result[1].val) = Shape(doc))

C4_Witness ==
    /\ ReturnedOk
    /\ variant = "spaced"
    /\ WellFormed(doc)
    /\ HasDuplicateKeys(result[1].val)
    /\ NestedObject(result[1].val)

\* the token the claim gives the character c, inside or outside a string
ClaimedToken(c, inside) ==
    IF inside
    THEN IF c = QUOTE THEN Plain("Quote")
         ELSE IF c = NL THEN Plain("NewLine")
         ELSE Token("Char", c)
    ELSE IF c = QUOTE THEN Plain("Quote")
    ELSE IF c = ":" THEN Plain("Colon")
    ELSE IF c = "-" THEN Plain("Minus")
    ELSE IF c = "{" THEN Plain("LeftCurly")
    ELSE IF c = "}" THEN Plain("RightCurly")
    ELSE IF c = "[" THEN Plain("LeftBracket")
    ELSE IF c = "]" THEN Plain("RightBracket")
    ELSE IF c = "," THEN Plain("Comma")
    ELSE IF c = "." THEN Plain("Dot")
    ELSE IF c = " " \/ c = TAB THEN Plain("Whitespace")
    ELSE IF c = NL THEN Plain("NewLine")
    ELSE IF c \in Digits THEN Token("Digit", c)
    ELSE IF c \in Letters THEN Token("Char", c)
    ELSE Plain("NotSupported")

\* C5: tokenize returns one token per character, in order, the i-th decided
\* by the i-th character and the parity of the quotes before it.
C5_OneTokenPerCharacter ==
    pc = "tokenized"
        => /\ Len(toks) = Len(text)
           /\ \A i \in 1..Len(text) :
                toks[i].tok = ClaimedToken(text[i], InsideString(text, i))

C5_Witness ==
    /\ pc = "tokenized"
    /\ \E i, j \in 1..Len(text) :
         /\ InsideString(text, i) /\ text[i] = " "
         /\ ~InsideString(text, j) /\ text[j] \in {" ", TAB}

\* parse gave the same tree, or failed, on both texts
SameOutcome(a, b) ==
    LET ok(o) == o.result # <<>> /\ o.result[1].st = "ok" IN
    IF ok(a) \/ ok(b) THEN ok(a) /\ ok(b) /\ a.result[1].val = b.result[1].val
    ELSE TRUE

\* C6: whitespace outside quoted strings does not change what parse yields,
\* and a string literal without a newline is parsed to exactly the characters
\* between its quotes, spaces included.
C6_WhitespaceOnlyMattersInStrings ==
    /\ (Done /\ run = 2) => SameOutcome(first, [result |-> result, fault |-> fault])
    /\ (Done /\ variant = "spaced")
          => /\ ReturnedOk
             /\ Len(StringsOf(result[1].val)) = Len(Literals(text))
             /\ \A k \in 1..Len(Literals(text)) :
                  ~HasNewline(Literals(text)[k])
                      => StringsOf(result[1].val)[k] = Literals(text)[k]

C6_Witness ==
    /\ ReturnedOk
    /\ run = 2
    /\ variant = "spaced"
    /\ first.result = result
    /\ \E k \in 1..Len(Literals(text)) :
         /\ \E j \in 1..Len(Literals(text)[k]) : Literals(text)[k][j] = " "
         /\ StringsOf(result[1].val)[k] = Literals(text)[k]

\* C7, as claimed: a string literal with an embedded newline is cut at the
\* newline: the value is the characters before the first newline.
C7_CutAtNewline ==
    (Done /\ variant = "spaced")
        => /\ ReturnedOk
           /\ Len(StringsOf(result[1].val)) = Len(Literals(text))
           /\ \A k \in 1..Len(Literals(text)) :
                StringsOf(result[1].val)[k] = UpToNewline(Literals(text)[k])

\* C7, amended: a string literal with embedded newlines loses the newlines and
\* nothing else: the value is the characters between the quotes, those after
\* a newline included, without the newline characters.
C7_NewlinesDropped ==
    (Done /\ variant = "spaced")
        => /\ ReturnedOk
           /\ Len(StringsOf(result[1].val)) = Len(Literals(text))
           /\ \A k \in 1..Len(Literals(text)) :
                StringsOf(result[1].val)[k] = RemoveNewlines(Literals(text)[k])

C7_Witness ==
    /\ ReturnedOk
    /\ variant = "spaced"
    /\ \E k \in 1..Len(Literals(text)) :
         /\ HasNewline(Literals(text)[k])
         /\ StringsOf(result[1].val)[k] = RemoveNewlines(Literals(text)[k])
         /\ Len(StringsOf(result[1].val)[k]) > Len(UpToNewline(Literals(text)[k]))

\* C8: during a parse call the read index never decreases and stays within
\* 0..len(tokens), and last_token never subtracts from an empty length.
C8_CursorInBounds ==
    /\ [](idx \in 0..Len(tokens))
    /\ [](fault # "attempt to subtract with overflow")
    /\ [][pc = "parsing" => idx' >= idx]_vars

C8_Witness ==
    /\ ReturnedErr
    /\ result[1].err.text = EofMessage
    /\ idx = Len(tokens)
    /\ idx > 0

\* whether the innermost function has a step to take
CanStep ==
    /\ stack # <<>>
    /\ <<Top.fn, Top.at>> \in {<<"parse_object", "enter">>, <<"parse_object", "loop">>,
                                <<"parse_object", "after">>, <<"parse_keyed_object", "enter">>,
                                <<"parse_keyed_object", "after">>, <<"parse_array", "loop">>,
                                <<"parse_array", "after">>}
    /\ Top.at = "after" => ret # <<>>

\* The variant of a parse call: the tokens left to read first; with none read,
\* the depth of the calls and the place in the innermost function (a function
\* about to loop may still call or return, one that was returned to may still
\* loop or return).
Variant ==
    (Len(tokens) - idx) * (2 * Len(tokens) + 8)
    + 2 * Len(stack)
    + (IF stack = <<>> \/ Top.at = "enter" THEN 0 ELSE IF Top.at = "loop" THEN 3 ELSE 4)

\* C9: parse terminates on every token sequence: every loop iteration and
\* every recursive call advances the read index or returns, so every step of
\* a parse call that does not return to main lowers the variant, and a parse
\* call that has not returned always has a step to take.
C9_ParseTerminates ==
    /\ [](pc = "parsing" => CanStep)
    /\ [][(pc = "parsing" /\ pc' = "parsing") => (Variant' < Variant /\ Variant' >= 0)]_vars

C9_Witness ==
    /\ ReturnedOk
    /\ result[1].val.tag = "Object"
    /\ Len(result[1].val.kids) >= 2
    /\ \E k \in 1..Len(result[1].val.kids) : result[1].val.kids[k].kids[1].tag = "Arr"

\* C10: every token's recorded line is 1 plus the number of newlines before
\* its character and its recorded column the 1-based place of the character in
\* its line, on every line.
C10_PositionsOnEveryLine ==
    pc = "tokenized"
        => \A i \in 1..Len(text) :
             /\ toks[i].pos.line = 1 + Cardinality({k \in 1..(i - 1) : text[k] = NL})
             /\ toks[i].pos.col = i - Max({0} \cup {k \in 1..(i - 1) : text[k] = NL})

====
